---- MODULE Spec2Model ----
(***************************************************************************)
(* Model of the chat-driven ordering assistant: the session cart           *)
(* (session['order_session']), the pricing function                        *)
(* DatabaseService.get_product_pricing, the cart operations of             *)
(* process_message, EnhancedOrderService and the /api/cart routes, and     *)
(* the three order-creation paths (EnhancedOrderService.confirm_cart,      *)
(* EnhancedOrderService.create_order_from_cart,                            *)
(* OrderService.create_order_from_cart).                                   *)
(*                                                                         *)
(* Money is held in cents (the code holds floats with two decimals).       *)
(***************************************************************************)
EXTENDS Integers, Sequences, FiniteSets, TLC

(***************************************************************************)
(* Bounds of the model.                                                    *)
(***************************************************************************)
\* largest quantity one request may name
MaxAddQty == 2
\* largest quantity a cart line may reach
MaxLineQty == 3
\* stock of every product record at start
InitStock == 3
\* number of order rows the order table may hold
MaxOrders == 2
\* requests one session sends when it is the only one active (Spec)
MaxRequests == 3
\* requests the first of two concurrently active sessions sends (ConcSpec)
MaxConcRequests == 2
\* requests the second of two concurrently active sessions sends (ConcSpec)
MaxRivalRequests == 1
\* largest quantity priced in PricingSpec
MaxPricingQty == 10
\* largest quantity priced in PuritySpec
MaxPurityQty == 2
\* pricing calls PuritySpec keeps for comparison
MaxCalls == 3
\* requests the session of PuritySpec sends
MaxPurityRequests == 1
MaxOnboardRequests == 2
\* length of a product reference, and 'add' messages sent after resolving
MaxRefLen == 5
MaxResolveRequests == 1
\* order calls of one session between the stock updates
MaxStockRequests == 1

Sessions == {1, 2}
Warehouses == {1, 2}
\* product codes the requests of the model name
Codes == {"QB001", "QB003"}

\* 'order_session' not in session
NoCart == [status |-> "no_order_session"]
\* Python's None as a scheme name
None == "None"
\* a product reference that names no product of the catalog
NoProduct == "no_product"

(***************************************************************************)
(* State.                                                                  *)
(***************************************************************************)
VARIABLES
  order_session,   \* session['order_session'] of every browser session
  warehouse_of,    \* the warehouse the session's user chose at onboarding
  stock,           \* Product.available_for_sale per (warehouse, code) row
  orders,          \* the orders table with each row's order items
  request,         \* the order-creation call a session has in flight
  budget,          \* requests each session may still send
  response,        \* outcome of the last request each session sent
  tracking_session,\* session['tracking_session'] of every browser session
  email_log,       \* the EmailLog rows of the order-confirmation emails
  onboarding_state,\* session['onboarding_state'] of every browser session
  resolution,      \* the product reference of an 'add' message, the catalog
                   \* it is resolved against, and the product found
  pricing_in,      \* arguments of the last pricing call (PricingSpec)
  pricing_out,     \* its result
  pricing_calls    \* the pricing calls kept for comparison, and how many
                   \* are kept

(***************************************************************************)
(* Catalog: create_sample_products stores the same five products in every  *)
(* warehouse.                                                              *)
(***************************************************************************)
SchemeLabels ==
  {"Buy 2 Get 1 Free", "Buy 1 Get 20% Off", "Buy 3 Get 2 Free",
   "Buy 1 Get 15% Off", "Buy 2 Get 25% Off"}

sample_products ==
  [c \in {"QB001", "QB002", "QB003", "QB004", "QB005"} |->
     CASE c = "QB001" -> [price_of_product |-> 250000, discount |-> 15000,
                          scheme |-> "Buy 2 Get 1 Free"]
       [] c = "QB002" -> [price_of_product |-> 120000, discount |-> 10000,
                          scheme |-> "Buy 1 Get 20% Off"]
       [] c = "QB003" -> [price_of_product |-> 80000, discount |-> 5000,
                          scheme |-> "Buy 3 Get 2 Free"]
       [] c = "QB004" -> [price_of_product |-> 180000, discount |-> 20000,
                          scheme |-> "Buy 1 Get 15% Off"]
       [] OTHER       -> [price_of_product |-> 95000, discount |-> 7500,
                          scheme |-> "Buy 2 Get 25% Off"]]

(***************************************************************************)
(* Python's round(x, 2) on an amount n/d cents: nearest cent, ties to the  *)
(* even cent.                                                              *)
(***************************************************************************)
round2(n, d) ==
  LET q == n \div d
      r == n % d
  IN  IF 2 * r < d THEN q
      ELSE IF 2 * r > d THEN q + 1
      ELSE IF q % 2 = 0 THEN q ELSE q + 1

\* the test  '<label>' in scheme  of get_product_pricing; scheme is None
\* or one of the catalog's labels, each of which contains only itself
SchemeHas(scheme, label) == scheme # None /\ scheme = label

(***************************************************************************)
(* The scheme branch of get_product_pricing. percent is the part of the    *)
(* price after discount that is charged, in percent.                       *)
(***************************************************************************)
\* 'Buy 2 Get 1 Free' giving one free unit for every two units
Buy2Get1_per_two(quantity) ==
  [paid_quantity |-> quantity - quantity \div 2,
   free_quantity |-> quantity \div 2,
   percent |-> 100]

Buy2Get1(quantity) ==
  LET scheme_groups == quantity \div 3
      remaining_items == quantity % 3
  IN  [paid_quantity |-> scheme_groups * 2 + remaining_items,
       free_quantity |-> scheme_groups * 1,
       percent |-> 100]

Buy3Get2(quantity) ==
  LET scheme_groups == quantity \div 5
      remaining_items == quantity % 5
  IN  IF remaining_items >= 3
      THEN [paid_quantity |-> scheme_groups * 3 + 3,
            free_quantity |-> scheme_groups * 2 + 2,
            percent |-> 100]
      ELSE [paid_quantity |-> scheme_groups * 3 + remaining_items,
            free_quantity |-> scheme_groups * 2,
            percent |-> 100]

\* the scheme branch with the percent schemes applied from the first unit
apply_scheme_from_one(scheme, quantity) ==
  IF SchemeHas(scheme, "Buy 3 Get 2 Free") /\ quantity >= 3
    THEN Buy3Get2(quantity)
  ELSE IF SchemeHas(scheme, "Buy 2 Get 1 Free") /\ quantity >= 2
    THEN Buy2Get1(quantity)
  ELSE IF SchemeHas(scheme, "Buy 1 Get 20% Off")
    THEN [paid_quantity |-> quantity, free_quantity |-> 0, percent |-> 80]
  ELSE IF SchemeHas(scheme, "Buy 1 Get 15% Off")
    THEN [paid_quantity |-> quantity, free_quantity |-> 0, percent |-> 85]
  ELSE IF SchemeHas(scheme, "Buy 2 Get 25% Off")
    THEN [paid_quantity |-> quantity, free_quantity |-> 0, percent |-> 75]
  ELSE [paid_quantity |-> quantity, free_quantity |-> 0, percent |-> 100]

apply_scheme(scheme, quantity) ==
  IF SchemeHas(scheme, "Buy 3 Get 2 Free") /\ quantity >= 3
    THEN Buy3Get2(quantity)
  ELSE IF SchemeHas(scheme, "Buy 2 Get 1 Free") /\ quantity >= 2
    THEN Buy2Get1(quantity)
  ELSE IF SchemeHas(scheme, "Buy 1 Get 20% Off") /\ quantity >= 1
    THEN [paid_quantity |-> quantity, free_quantity |-> 0, percent |-> 80]
  ELSE IF SchemeHas(scheme, "Buy 1 Get 15% Off") /\ quantity >= 1
    THEN [paid_quantity |-> quantity, free_quantity |-> 0, percent |-> 85]
  ELSE IF SchemeHas(scheme, "Buy 2 Get 25% Off") /\ quantity >= 2
    THEN [paid_quantity |-> quantity, free_quantity |-> 0, percent |-> 75]
  ELSE [paid_quantity |-> quantity, free_quantity |-> 0, percent |-> 100]

\* a pricing whose unit price grows with the number of calls made so far
get_product_pricing_counting(product, quantity) ==
  LET price_after_discount == product.price_of_product - product.discount
      s == apply_scheme(product.scheme, quantity)
      final_price == round2(price_after_discount * s.percent, 100)
                       + Len(pricing_calls.calls)
  IN  [final_price |-> final_price,
       discount_percentage |-> 0,
       scheme_name |-> product.scheme,
       total_amount |-> final_price * s.paid_quantity,
       total_quantity |-> quantity,
       paid_quantity |-> s.paid_quantity,
       free_quantity |-> s.free_quantity,
       base_price |-> product.price_of_product,
       discount_amount |-> product.discount]

(***************************************************************************)
(* DatabaseService.get_product_pricing for a product row that exists.      *)
(* discount_percentage is in hundredths of a percent. A zero base price    *)
(* with a discount raises ZeroDivisionError, and the except branch         *)
(* returns the base pricing.                                               *)
(***************************************************************************)
get_product_pricing(product, quantity) ==
  LET base_price == product.price_of_product
      discount_amount == product.discount
      scheme == product.scheme
  IN  IF discount_amount > 0 /\ base_price = 0
      THEN [final_price |-> base_price, discount_percentage |-> 0,
            scheme_name |-> None, total_amount |-> base_price * quantity,
            total_quantity |-> quantity, paid_quantity |-> quantity,
            free_quantity |-> 0, base_price |-> base_price,
            discount_amount |-> 0]
      ELSE
        LET discount_percentage ==
              IF discount_amount > 0
              THEN round2(discount_amount * 10000, base_price) ELSE 0
            price_after_discount == base_price - discount_amount
            s == apply_scheme(scheme, quantity)
        IN  [final_price |-> round2(price_after_discount * s.percent, 100),
             discount_percentage |-> discount_percentage,
             scheme_name |-> scheme,
             total_amount |->
               round2(price_after_discount * s.percent * s.paid_quantity, 100),
             total_quantity |-> quantity,
             paid_quantity |-> s.paid_quantity,
             free_quantity |-> s.free_quantity,
             base_price |-> base_price,
             discount_amount |-> discount_amount]

(***************************************************************************)
(* Product resolution of the chat 'add' command. Text is a sequence of     *)
(* characters; a catalog is the list of the warehouse's products in the    *)
(* order get_products_by_warehouse returns them.                           *)
(***************************************************************************)
\* str.lower() on the characters that occur
lower_char(ch) ==
  IF ch = "A" THEN "a" ELSE IF ch = "B" THEN "b" ELSE IF ch = "Q" THEN "q"
  ELSE ch

lower(text) == [i \in 1..Len(text) |-> lower_char(text[i])]

\* x in y  on strings
Contains(y, x) ==
  \E i \in 0..(Len(y) - Len(x)) : SubSeq(y, i + 1, i + Len(x)) = x

\* str.split(): the maximal runs of characters other than the space
RECURSIVE split_from(_, _)
split_from(text, word) ==
  IF text = <<>> THEN (IF word = <<>> THEN <<>> ELSE <<word>>)
  ELSE IF Head(text) = " "
  THEN (IF word = <<>> THEN <<>> ELSE <<word>>) \o split_from(Tail(text), <<>>)
  ELSE split_from(Tail(text), Append(word, Head(text)))

split(text) == split_from(text, <<>>)

\* 'Try exact matches first'
ExactMatch(product_name_lower, p) ==
  \/ product_name_lower = lower(p.product_name)
  \/ product_name_lower = lower(p.product_code)

\* 'Try partial matches if exact match fails'
PartialMatch(product_name_lower, p) ==
  \/ Contains(lower(p.product_name), product_name_lower)
  \/ Contains(product_name_lower, lower(p.product_code))
  \/ \E k \in 1..Len(split(product_name_lower)) :
        /\ Len(split(product_name_lower)[k]) > 2
        /\ Contains(lower(p.product_name), split(product_name_lower)[k])

\* for p in products: if <exact match>: product = p; break  -- the index
\* of the first product from position i on that matches, 0 for None
RECURSIVE first_exact_match(_, _, _)
first_exact_match(product_name_lower, products, i) ==
  IF i > Len(products) THEN 0
  ELSE IF ExactMatch(product_name_lower, products[i]) THEN i
  ELSE first_exact_match(product_name_lower, products, i + 1)

\* the same loop with the partial match
RECURSIVE first_partial_match(_, _, _)
first_partial_match(product_name_lower, products, i) ==
  IF i > Len(products) THEN 0
  ELSE IF PartialMatch(product_name_lower, products[i]) THEN i
  ELSE first_partial_match(product_name_lower, products, i + 1)

\* one loop that takes the first product matching either way
RECURSIVE first_any_match(_, _, _)
first_any_match(product_name_lower, products, i) ==
  IF i > Len(products) THEN 0
  ELSE IF \/ ExactMatch(product_name_lower, products[i])
          \/ PartialMatch(product_name_lower, products[i]) THEN i
  ELSE first_any_match(product_name_lower, products, i + 1)

resolve_product_one_pass(product_name, products) ==
  first_any_match(lower(product_name), products, 1)

\* the product an add command's reference resolves to
resolve_product(product_name, products) ==
  LET product_name_lower == lower(product_name)
      exact == first_exact_match(product_name_lower, products, 1)
  IN  IF exact # 0 THEN exact
      ELSE first_partial_match(product_name_lower, products, 1)

NoResolution == [called |-> FALSE]

vars == <<order_session, warehouse_of, stock, orders, request, budget,
          response, tracking_session, email_log, onboarding_state,
          resolution, pricing_in, pricing_out, pricing_calls>>
cartvars == <<order_session, warehouse_of, stock, orders, request, budget,
              response, tracking_session, email_log, onboarding_state,
              resolution>>

\* The dict process_message, clear_cart and force_clear_cart store. missing
\* holds the keys the dict lacks; order_id 0 is None.
FreshCart ==
  [status |-> "idle", items |-> <<>>, total_cost |-> 0,
   discount_applied |-> 0, final_total |-> 0, order_id |-> 0,
   pending_confirmation |-> FALSE, missing |-> {"total_amount"}]

Idle == [pc |-> "idle"]

\* process_message creates the order session on the first main-flow message
EnsureCart(c) == IF c = NoCart THEN FreshCart ELSE c

RECURSIVE SumItemTotal(_)
SumItemTotal(items) ==
  IF items = <<>> THEN 0
  ELSE Head(items).item_total + SumItemTotal(Tail(items))

RECURSIVE SumDiscount(_)
SumDiscount(items) ==
  IF items = <<>> THEN 0
  ELSE (IF Head(items).discount_percentage > 0
        THEN (Head(items).unit_price - Head(items).final_price)
               * Head(items).quantity
        ELSE 0) + SumDiscount(Tail(items))

\* index of the first line with the product code, 0 when there is none
FirstIndex(items, code) ==
  IF \E i \in 1..Len(items) : items[i].product_code = code
  THEN CHOOSE i \in 1..Len(items) :
         /\ items[i].product_code = code
         /\ \A j \in 1..(i - 1) : items[j].product_code # code
  ELSE 0

RemoveAt(items, i) ==
  [j \in 1..(Len(items) - 1) |-> IF j < i THEN items[j] ELSE items[j + 1]]

\* the cart line the code builds from a pricing result
NewItem(code, quantity, pricing_info, product_id) ==
  [product_code |-> code, quantity |-> quantity,
   unit_price |-> pricing_info.base_price,
   final_price |-> pricing_info.final_price,
   discount_percentage |-> pricing_info.discount_percentage,
   scheme_name |-> pricing_info.scheme_name,
   item_total |-> pricing_info.total_amount,
   product_id |-> product_id]

\* 'Update existing item': the quantity and the item total are both added to
AddToExisting(items, i, quantity, pricing_info) ==
  [items EXCEPT ![i].quantity = @ + quantity,
                ![i].item_total = @ + pricing_info.total_amount]

\* EnhancedOrderService._recalculate_cart_totals
recalculate_cart_totals(c) ==
  [c EXCEPT !.total_cost = SumItemTotal(c.items),
            !.discount_applied = SumDiscount(c.items),
            !.final_total = SumItemTotal(c.items),
            !.missing = @ \ {"total_cost"}]

\* EnhancedOrderService.initialize_cart_session: dict.update on the stored
\* dict, or on a new empty dict when the session has none. It writes
\* total_amount and never total_cost.
initialize_cart_session(c) ==
  IF c = NoCart
  THEN [status |-> "active", items |-> <<>>, total_cost |-> 0,
        discount_applied |-> 0, final_total |-> 0, order_id |-> 0,
        pending_confirmation |-> FALSE,
        missing |-> {"total_cost", "order_id", "pending_confirmation"}]
  ELSE [c EXCEPT !.status = "active", !.items = <<>>,
                 !.discount_applied = 0, !.final_total = 0,
                 !.missing = @ \ {"total_amount"}]

\* EnhancedOrderService.get_cart_summary: total_amount is read from the
\* cart dict, where only initialize_cart_session writes it (as 0); a
\* KeyError is caught and answered with no summary
get_cart_summary(c) ==
  IF c = NoCart
  THEN [ok |-> FALSE, message |-> "No active cart session"]
  ELSE IF c.items = <<>>
  THEN [ok |-> TRUE, items |-> <<>>, total_amount |-> 0, status |-> "empty"]
  ELSE IF "total_amount" \in c.missing
  THEN [ok |-> FALSE, message |-> "Error retrieving cart"]
  ELSE [ok |-> TRUE, items |-> c.items, total_amount |-> 0,
        status |-> "active"]

\* a session sends its next request when the previous one has returned;
\* outcome is what the handler answers: "ok", "error" (a refusal, a
\* clarification or an error response), "not_in_cart" (a remove that found
\* no line), "order_failed" (order creation returned no order), or "none"
\* while the call runs on
Served(s, outcome) ==
  /\ budget' = [budget EXCEPT ![s] = @ - 1]
  /\ response' = [response EXCEPT ![s] = outcome]
CanServe(s) ==
  /\ budget[s] > 0
  /\ request[s].pc = "idle"
  /\ onboarding_state[s] = "completed"   \* session['user_id'] is set

\* Flask stores a session whose top-level key was assigned in the request.
\* A change made only inside the stored dict is kept or lost with the
\* session backend, so both outcomes are possible.
\* the cart kept in the process-wide service object instead of the session
StoreInSingleton(s, c, assigned) ==
  order_session' = [u \in Sessions |-> c]

Store(s, c, assigned) ==
  IF assigned
  THEN order_session' = [order_session EXCEPT ![s] = c]
  ELSE \E kept \in BOOLEAN :
         order_session' = [order_session EXCEPT ![s] = IF kept THEN c ELSE @]

(***************************************************************************)
(* process_message, a message containing 'add'. ref is the product the     *)
(* reference of the message resolves to in the warehouse's products, or    *)
(* NoProduct when no pattern or no product matches.                        *)
(***************************************************************************)
chat_add(c, ref, quantity) ==
  LET restate == c.status \notin {"confirming", "calculating"}
      c1 == IF restate
            THEN [c EXCEPT !.status = "confirming",
                           !.pending_confirmation = TRUE,
                           !.missing = @ \ {"pending_confirmation"}]
            ELSE c
      pricing_info == get_product_pricing(sample_products[ref], quantity)
      i == FirstIndex(c1.items, ref)
      items2 == IF i # 0
                THEN AddToExisting(c1.items, i, quantity, pricing_info)
                ELSE Append(c1.items, NewItem(ref, quantity, pricing_info, 0))
  IN  IF ref = NoProduct
      THEN [cart |-> c1, assigned |-> restate]
      ELSE IF "total_cost" \in c1.missing
      THEN \* KeyError at  order_session['total_cost'] +=  : the line is in
           \* the list already, the totals are not updated
           [cart |-> [c1 EXCEPT !.items = items2], assigned |-> restate]
      ELSE [cart |-> [c1 EXCEPT !.items = items2,
                                !.total_cost = @ + pricing_info.total_amount,
                                !.final_total = @ + pricing_info.total_amount],
            assigned |-> TRUE]

\* the message whose product reference resolves to ref
ChatAddOf(s, ref, quantity) ==
  LET created == order_session[s] = NoCart
      c == EnsureCart(order_session[s])
      i == FirstIndex(c.items, ref)
      r == chat_add(c, ref, quantity)
  IN  /\ CanServe(s)
      /\ i # 0 => c.items[i].quantity + quantity <= MaxLineQty
      /\ Store(s, r.cart, created \/ r.assigned)
      /\ Served(s, IF ref = NoProduct \/ "total_cost" \in c.missing
                   THEN "error" ELSE "ok")
      /\ UNCHANGED <<onboarding_state, resolution, warehouse_of, stock, orders, request,
                     pricing_in, pricing_out, pricing_calls,
                     tracking_session, email_log>>

ChatAdd(s) ==
  \E ref \in Codes \cup {NoProduct}, quantity \in 0..MaxAddQty :
    ChatAddOf(s, ref, quantity)

(***************************************************************************)
(* process_message, intent CALCULATE_COST and a message containing         *)
(* 'remove' while the status is confirming or calculating. ref is the      *)
(* code of the first cart line the reference matches, or NoProduct.        *)
(***************************************************************************)
chat_remove(c, ref) ==
  LET i == FirstIndex(c.items, ref)
      items2 == RemoveAt(c.items, i)
      c2 == [c EXCEPT !.items = items2,
                      !.total_cost = @ - c.items[i].item_total,
                      !.final_total = @ - c.items[i].item_total]
  IN  IF i = 0
      THEN [cart |-> c, assigned |-> FALSE]
      ELSE IF "total_cost" \in c.missing
      THEN \* KeyError after the line has left the list
           [cart |-> [c EXCEPT !.items = items2], assigned |-> FALSE]
      ELSE [cart |-> IF items2 = <<>> THEN [c2 EXCEPT !.status = "idle"]
                     ELSE c2,
            assigned |-> TRUE]

ChatRemoveOf(s, ref) ==
  LET created == order_session[s] = NoCart
      c == EnsureCart(order_session[s])
      r == chat_remove(c, ref)
  IN  /\ CanServe(s)
      /\ c.status \in {"confirming", "calculating"}
      /\ Store(s, r.cart, created \/ r.assigned)
      /\ Served(s, IF FirstIndex(c.items, ref) = 0 THEN "not_in_cart"
                   ELSE IF "total_cost" \in c.missing THEN "error"
                   ELSE "ok")
      /\ UNCHANGED <<onboarding_state, resolution, warehouse_of, stock, orders, request,
                     pricing_in, pricing_out, pricing_calls,
                     tracking_session, email_log>>

ChatRemove(s) ==
  \E ref \in Codes \cup {NoProduct} : ChatRemoveOf(s, ref)

(***************************************************************************)
(* /api/cart/init                                                          *)
(***************************************************************************)
ApiInit(s) ==
  /\ CanServe(s)
  /\ Store(s, initialize_cart_session(order_session[s]),
           order_session[s] = NoCart)
  /\ Served(s, "ok")
  /\ UNCHANGED <<onboarding_state, resolution, warehouse_of, stock, orders, request, pricing_in, pricing_out, pricing_calls,
                     tracking_session, email_log>>

(***************************************************************************)
(* /api/cart/add: EnhancedOrderService.add_item_to_cart. available is the  *)
(* stock of the product row of the session's warehouse; the result is the  *)
(* stored cart, unchanged when the call is refused.                        *)
(***************************************************************************)
add_item_to_cart(c, product_code, quantity, warehouse_id, available) ==
  LET pricing_info == get_product_pricing(sample_products[product_code], quantity)
      c1 == IF c = NoCart THEN initialize_cart_session(c) ELSE c
      i == FirstIndex(c1.items, product_code)
      items2 == IF i # 0
                THEN AddToExisting(c1.items, i, quantity, pricing_info)
                ELSE Append(c1.items,
                            NewItem(product_code, quantity, pricing_info,
                                    warehouse_id))
  IN  IF product_code = NoProduct THEN c
      ELSE IF available < quantity THEN c
      ELSE recalculate_cart_totals([c1 EXCEPT !.items = items2])

ApiAddOf(s, product_code, quantity) ==
  LET c == order_session[s]
      w == warehouse_of[s]
      i == IF c = NoCart THEN 0 ELSE FirstIndex(c.items, product_code)
      available == IF product_code = NoProduct THEN 0
                   ELSE stock[w][product_code]
  IN  /\ CanServe(s)
      /\ i # 0 => c.items[i].quantity + quantity <= MaxLineQty
      /\ order_session' =
           [order_session EXCEPT
              ![s] = add_item_to_cart(c, product_code, quantity, w, available)]
      /\ Served(s, IF product_code = NoProduct \/ available < quantity
                   THEN "error" ELSE "ok")
      /\ UNCHANGED <<onboarding_state, resolution, warehouse_of, stock, orders, request,
                     pricing_in, pricing_out, pricing_calls,
                     tracking_session, email_log>>

ApiAdd(s) ==
  \E product_code \in Codes \cup {NoProduct}, quantity \in 0..MaxAddQty :
    ApiAddOf(s, product_code, quantity)

(***************************************************************************)
(* /api/cart/remove: EnhancedOrderService.remove_item_from_cart            *)
(***************************************************************************)
RECURSIVE WithoutCode(_, _)
WithoutCode(items, code) ==
  IF items = <<>> THEN <<>>
  ELSE IF Head(items).product_code = code THEN WithoutCode(Tail(items), code)
  ELSE <<Head(items)>> \o WithoutCode(Tail(items), code)

\* remove_item_from_cart without its comparison of the two lengths
remove_item_from_cart_unchecked(c, product_code) ==
  IF c = NoCart THEN c
  ELSE recalculate_cart_totals(
         [c EXCEPT !.items = WithoutCode(c.items, product_code)])

remove_item_from_cart(c, product_code) ==
  IF c = NoCart THEN c
  ELSE IF Len(WithoutCode(c.items, product_code)) = Len(c.items) THEN c
  ELSE recalculate_cart_totals(
         [c EXCEPT !.items = WithoutCode(c.items, product_code)])

ApiRemoveOf(s, product_code) ==
  /\ CanServe(s)
  /\ order_session' =
       [order_session EXCEPT ![s] = remove_item_from_cart(@, product_code)]
  /\ Served(s, IF order_session[s] = NoCart THEN "error"
               ELSE IF order_session'[s] = order_session[s]
               THEN "not_in_cart" ELSE "ok")
  /\ UNCHANGED <<onboarding_state, resolution, warehouse_of, stock, orders, request, pricing_in, pricing_out, pricing_calls,
                     tracking_session, email_log>>

ApiRemove(s) ==
  \E product_code \in Codes : ApiRemoveOf(s, product_code)

(***************************************************************************)
(* /api/cart/update: EnhancedOrderService.update_item_quantity. Its first  *)
(* check reads the session key 'order_code', which no handler writes.      *)
(***************************************************************************)
order_code_in_session == FALSE

update_item_quantity(c, product_code, new_quantity, available) ==
  LET i == IF c = NoCart THEN 0 ELSE FirstIndex(c.items, product_code)
      pricing_info ==
        get_product_pricing(sample_products[product_code], new_quantity)
      items2 == [c.items EXCEPT
                   ![i].quantity = new_quantity,
                   ![i].final_price = pricing_info.final_price,
                   ![i].discount_percentage = pricing_info.discount_percentage,
                   ![i].scheme_name = pricing_info.scheme_name,
                   ![i].item_total = pricing_info.total_amount]
  IN  IF ~order_code_in_session
      THEN [cart |-> c, success |-> FALSE]      \* 'No active cart session'
      ELSE IF i = 0 THEN [cart |-> c, success |-> FALSE]
      ELSE IF new_quantity <= 0
      THEN [cart |-> remove_item_from_cart(c, product_code), success |-> TRUE]
      ELSE IF available < new_quantity THEN [cart |-> c, success |-> FALSE]
      ELSE IF c.items[i].product_id = 0
      THEN \* KeyError at item['product_id'], after the quantity was set
           [cart |-> [c EXCEPT !.items[i].quantity = new_quantity],
            success |-> FALSE]
      ELSE [cart |-> recalculate_cart_totals([c EXCEPT !.items = items2]),
            success |-> TRUE]

ApiUpdateOf(s, product_code, new_quantity) ==
  LET r == update_item_quantity(order_session[s], product_code, new_quantity,
                                stock[warehouse_of[s]][product_code])
  IN  /\ CanServe(s)
      /\ order_session' = [order_session EXCEPT ![s] = r.cart]
      /\ Served(s, IF r.success THEN "ok" ELSE "error")
      /\ UNCHANGED <<onboarding_state, resolution, warehouse_of, stock, orders, request,
                     pricing_in, pricing_out, pricing_calls,
                     tracking_session, email_log>>

ApiUpdate(s) ==
  \E product_code \in Codes, new_quantity \in 0..MaxAddQty :
    ApiUpdateOf(s, product_code, new_quantity)

(***************************************************************************)
(* /api/cart/clear: EnhancedOrderService.clear_cart                        *)
(***************************************************************************)
clear_cart == FreshCart

\* EnhancedOrderService.force_clear_cart
force_clear_cart == FreshCart

ApiClear(s) ==
  /\ CanServe(s)
  /\ order_session' = [order_session EXCEPT ![s] = clear_cart]
  /\ Served(s, "ok")
  /\ UNCHANGED <<onboarding_state, resolution, warehouse_of, stock, orders, request, pricing_in, pricing_out, pricing_calls,
                     tracking_session, email_log>>

(***************************************************************************)
(* /api/update-cart with one selected product: the quantity-selection      *)
(* interface. The product is looked up by code alone.                      *)
(***************************************************************************)
update_cart(c, code, quantity) ==
  LET c1 == [EnsureCart(c) EXCEPT !.status = "confirming"]
      pricing_info == get_product_pricing(sample_products[code], quantity)
      i == FirstIndex(c1.items, code)
      items2 ==
        IF code = NoProduct THEN c1.items
        ELSE IF i # 0
        THEN [c1.items EXCEPT
                ![i].quantity = quantity,
                ![i].final_price = pricing_info.final_price,
                ![i].discount_percentage = pricing_info.discount_percentage,
                ![i].scheme_name = pricing_info.scheme_name,
                ![i].item_total = pricing_info.total_amount]
        ELSE Append(c1.items, NewItem(code, quantity, pricing_info, 0))
  IN  [c1 EXCEPT !.items = items2,
                 !.total_cost = SumItemTotal(items2),
                 !.final_total = SumItemTotal(items2),
                 !.missing = @ \ {"total_cost"}]

UpdateCartOf(s, code, quantity) ==
  /\ CanServe(s)
  /\ order_session' =
       [order_session EXCEPT ![s] = update_cart(@, code, quantity)]
  /\ Served(s, "ok")
  /\ UNCHANGED <<onboarding_state, resolution, warehouse_of, stock, orders, request, pricing_in, pricing_out, pricing_calls,
                     tracking_session, email_log>>

UpdateCart(s) ==
  \E code \in Codes \cup {NoProduct}, quantity \in 0..MaxAddQty :
    UpdateCartOf(s, code, quantity)

(***************************************************************************)
(* process_message, intent PLACE_ORDER. A completed cart is force-cleared  *)
(* first; has_order_session is then false.                                 *)
(***************************************************************************)
has_order_session(c) ==
  \/ (c.status \in {"calculating", "confirming"} /\ c.items # <<>>)
  \/ Len(c.items) > 0

PlaceOrderCart(c) == IF c.status = "completed" THEN force_clear_cart ELSE c

\* the simple product listing parsed from the message, merged into the cart
\* (has_order_session) or taken as the new cart
product_listing(c, order_items) ==
  LET new_item == order_items[1]
      i == FirstIndex(c.items, new_item.product_code)
      merged == IF i # 0
                THEN [c.items EXCEPT
                        ![i].quantity = @ + new_item.quantity,
                        ![i].item_total = @ + new_item.item_total]
                ELSE Append(c.items, new_item)
  IN  IF order_items = <<>> THEN c
      ELSE IF has_order_session(c)
      THEN [c EXCEPT !.items = merged,
                     !.total_cost = SumItemTotal(merged),
                     !.final_total = SumItemTotal(merged),
                     !.status = "confirming",
                     !.missing = @ \ {"total_cost"}]
      ELSE [c EXCEPT !.status = "confirming",
                     !.items = order_items,
                     !.total_cost = SumItemTotal(order_items),
                     !.final_total = SumItemTotal(order_items),
                     !.missing = @ \ {"total_cost"}]

\* the detailed order confirmation: the parsed lines replace the cart
detailed_confirmation(c, order_items) ==
  [c EXCEPT !.status = "confirming",
            !.items = order_items,
            !.total_cost = SumItemTotal(order_items),
            !.final_total = SumItemTotal(order_items),
            !.pending_confirmation = TRUE,
            !.missing = @ \ {"total_cost", "pending_confirmation"}]

\* the lines a message parses to: none, or one priced product line
ParsedItems ==
  {<<>>} \cup
  {<<NewItem(code, quantity,
             get_product_pricing(sample_products[code], quantity), 0)>> :
     code \in Codes, quantity \in 1..MaxAddQty}

\* classification_service.calculate_order_cost: the message resolves to
\* nothing, or to one priced product line with its totals
NotReady == [order_ready |-> FALSE, order_items |-> <<>>]
CostData ==
  {NotReady} \cup
  {[order_ready |-> TRUE, order_items |-> order_items,
    subtotal |-> SumItemTotal(order_items), discount_amount |-> 0,
    final_total |-> SumItemTotal(order_items)] :
     order_items \in ParsedItems \ {<<>>}}

\* process_message, intent CALCULATE_COST, past the 'add' and 'remove'
\* branches: an order that is ready replaces the cart's lines and totals
calculate_cost(c, cost_data) ==
  IF cost_data.order_ready /\ cost_data.order_items # <<>>
  THEN [c EXCEPT !.status = "calculating",
                 !.items = cost_data.order_items,
                 !.total_cost = cost_data.subtotal,
                 !.discount_applied = cost_data.discount_amount,
                 !.final_total = cost_data.final_total,
                 !.missing = @ \ {"total_cost"}]
  ELSE c

ChatCalculateOf(s, cost_data) ==
  /\ CanServe(s)
  /\ order_session' =
       [order_session EXCEPT
          ![s] = calculate_cost(EnsureCart(@), cost_data)]
  /\ Served(s, IF cost_data.order_ready THEN "ok" ELSE "error")
  /\ UNCHANGED <<onboarding_state, resolution, warehouse_of, stock, orders, request,
                 pricing_in, pricing_out, pricing_calls,
                 tracking_session, email_log>>

ChatCalculate(s) == \E cost_data \in CostData : ChatCalculateOf(s, cost_data)

\* 'place order' with no cart, not a confirmation: the product selection
ChatBrowse(s) ==
  LET c == PlaceOrderCart(EnsureCart(order_session[s]))
  IN  /\ CanServe(s)
      /\ ~has_order_session(c)
      /\ order_session' = [order_session EXCEPT ![s] = [c EXCEPT !.status = "browsing"]]
      /\ Served(s, "ok")
      /\ UNCHANGED <<onboarding_state, resolution, warehouse_of, stock, orders, request, pricing_in, pricing_out, pricing_calls,
                     tracking_session, email_log>>

ChatListing(s) ==
  \E order_items \in ParsedItems :
    LET c == PlaceOrderCart(EnsureCart(order_session[s]))
        i == IF order_items = <<>> THEN 0
             ELSE FirstIndex(c.items, order_items[1].product_code)
    IN  /\ CanServe(s)
        /\ i # 0 => c.items[i].quantity + order_items[1].quantity <= MaxLineQty
        /\ order_session' =
             [order_session EXCEPT ![s] = product_listing(c, order_items)]
        /\ Served(s, "ok")
        /\ UNCHANGED <<onboarding_state, resolution, warehouse_of, stock, orders, request,
                       pricing_in, pricing_out, pricing_calls,
                     tracking_session, email_log>>

\* the product sections of a detailed confirmation in message order: one
\* line per section the pattern matches, two sections of one product included
DetailedItems ==
  ParsedItems \cup
  {<<NewItem(c1, 1, get_product_pricing(sample_products[c1], 1), 0),
     NewItem(c2, 1, get_product_pricing(sample_products[c2], 1), 0)>> :
     c1 \in Codes, c2 \in Codes}

\* 'I confirm my order with the following details', reached with no cart
ChatDetailed(s) ==
  \E order_items \in DetailedItems :
    LET c == PlaceOrderCart(EnsureCart(order_session[s]))
    IN  /\ CanServe(s)
        /\ ~has_order_session(c)
        /\ order_session' =
             [order_session EXCEPT ![s] = detailed_confirmation(c, order_items)]
        /\ Served(s, "ok")
        /\ UNCHANGED <<onboarding_state, resolution, warehouse_of, stock, orders, request,
                       pricing_in, pricing_out, pricing_calls,
                     tracking_session, email_log>>

(***************************************************************************)
(* Order creation. The three callers check the stock, store the order row  *)
(* (DatabaseService.create_order commits it), and then per line store the  *)
(* order item and call update_product_quantities, each with its own        *)
(* commit; other sessions' requests run between these commits.             *)
(***************************************************************************)
\* DatabaseService.create_order; a new row has status pending, no total
create_order(rows, user_id, warehouse_id) ==
  Append(rows, [user_id |-> user_id, warehouse_id |-> warehouse_id,
                status |-> "pending", total_amount |-> 0,
                order_items |-> <<>>])

\* the availability loop of confirm_cart and of
\* EnhancedOrderService.create_order_from_cart: the first failing line
\* ends the call
AllAvailable(items, warehouse_id) ==
  \A i \in 1..Len(items) :
    stock[warehouse_id][items[i].product_code] >= items[i].quantity

\* OrderService._validate_cart_items: a failing line is skipped
validate_cart_items(cart_items, warehouse_id) ==
  LET Passes(item) ==
        /\ item.quantity > 0
        /\ item.product_code \in Codes
        /\ stock[warehouse_id][item.product_code] >= item.quantity
      kept == SelectSeq(cart_items, Passes)
  IN  [i \in 1..Len(kept) |->
         [product_code |-> kept[i].product_code,
          quantity |-> kept[i].quantity,
          unit_price |-> sample_products[kept[i].product_code].price_of_product,
          product_id |-> warehouse_id]]

\* process_message: 'Convert order session items to cart format'
cart_format(items) ==
  [i \in 1..Len(items) |->
     [product_code |-> items[i].product_code, quantity |-> items[i].quantity]]

\* a finalize call past the stock check: requested is the cart it was given,
\* cart_items the lines its 'Add order items' loop works through
Started(path, requested, cart_items) ==
  [pc |-> "items", path |-> path, requested |-> requested,
   cart_items |-> cart_items,
   order |-> Len(orders) + 1, i |-> 1, total_amount |-> 0]

\* the session update every caller skips when no order was created
completed_cart_unchecked(path, c, order_id) ==
  IF path = "chat" THEN force_clear_cart
  ELSE IF path = "confirm"
  THEN [c EXCEPT !.status = "completed", !.order_id = order_id,
                 !.pending_confirmation = FALSE,
                 !.missing = @ \ {"order_id", "pending_confirmation"}]
  ELSE c

\* the session cart after order creation returned: order_id 0 is no order
\* (the call was refused or failed), and the session is not touched then
completed_cart(path, c, order_id) ==
  IF order_id = 0 THEN c
  ELSE IF path = "chat" THEN force_clear_cart
  ELSE IF path = "confirm"
  THEN [c EXCEPT !.status = "completed", !.order_id = order_id,
                 !.pending_confirmation = FALSE,
                 !.missing = @ \ {"order_id", "pending_confirmation"}]
  ELSE c

\* process_message, PLACE_ORDER with a finalize keyword and a cart
ChatFinalize(s) ==
  LET c == EnsureCart(order_session[s])
      w == warehouse_of[s]
  IN  /\ CanServe(s)
      /\ c.status # "completed"
      /\ has_order_session(c)
      /\ IF AllAvailable(c.items, w)
         THEN /\ Len(orders) < MaxOrders
              /\ orders' = create_order(orders, s, w)
              /\ request' = [request EXCEPT
                               ![s] = Started("chat", cart_format(c.items),
                                              cart_format(c.items))]
              /\ Served(s, "none")
              /\ UNCHANGED order_session
         ELSE /\ UNCHANGED <<orders, request>>
              /\ Served(s, "order_failed")
              /\ order_session' =
                   [order_session EXCEPT ![s] = completed_cart("chat", c, 0)]
      /\ UNCHANGED <<onboarding_state, resolution, warehouse_of, stock, pricing_in, pricing_out, pricing_calls,
                     tracking_session, email_log>>

\* /api/cart/confirm: EnhancedOrderService.confirm_cart
ApiConfirm(s) ==
  LET c == order_session[s]
      w == warehouse_of[s]
  IN  /\ CanServe(s)
      /\ IF c = NoCart
         THEN \* 'No active cart session'
              /\ UNCHANGED <<orders, request, order_session>>
              /\ Served(s, "order_failed")
         ELSE IF c.items # <<>> /\ AllAvailable(c.items, w)
         THEN /\ Len(orders) < MaxOrders
              /\ orders' = create_order(orders, s, w)
              /\ request' = [request EXCEPT
                               ![s] = Started("confirm", c.items, c.items)]
              /\ Served(s, "none")
              /\ UNCHANGED order_session
         ELSE /\ UNCHANGED <<orders, request>>
              /\ Served(s, "order_failed")
              /\ order_session' =
                   [order_session EXCEPT ![s] = completed_cart("confirm", c, 0)]
      /\ UNCHANGED <<onboarding_state, resolution, warehouse_of, stock, pricing_in, pricing_out, pricing_calls,
                     tracking_session, email_log>>

\* the cart_items a /place-order request may carry
RouteCarts ==
  LET Lines == [product_code : Codes, quantity : 1..MaxAddQty]
  IN  {<<l>> : l \in {x \in Lines : x.product_code = "QB001"}} \cup
      {<<l, m>> : l \in {x \in Lines : x.product_code = "QB001"
                                       /\ x.quantity = MaxAddQty},
                  m \in {x \in Lines : x.product_code = "QB003"
                                       /\ x.quantity = 1}}

\* /place-order: OrderService.create_order_from_cart on the request's items
RoutePlaceOrder(s) ==
  \E cart_items \in RouteCarts :
    LET w == warehouse_of[s]
        validated_items == validate_cart_items(cart_items, w)
    IN  /\ CanServe(s)
        /\ IF validated_items # <<>>
           THEN /\ Len(orders) < MaxOrders
                /\ orders' = create_order(orders, s, w)
                /\ request' = [request EXCEPT
                                 ![s] = Started("route", cart_items,
                                                validated_items)]
                /\ Served(s, "none")
           ELSE /\ UNCHANGED <<orders, request>>
                /\ Served(s, "order_failed")
        /\ UNCHANGED <<order_session, onboarding_state, resolution, warehouse_of, stock, pricing_in, pricing_out, pricing_calls,
                     tracking_session, email_log>>

\* the order item each path stores for a line
order_item(path, item) ==
  IF path = "chat"
  THEN LET pricing_info ==
             get_product_pricing(sample_products[item.product_code],
                                 item.quantity)
       IN  [product_code |-> item.product_code, quantity |-> item.quantity,
            unit_price |-> pricing_info.final_price,
            total_price |-> pricing_info.total_amount]
  ELSE [product_code |-> item.product_code, quantity |-> item.quantity,
        unit_price |-> item.unit_price,
        total_price |-> item.quantity * item.unit_price]

\* the deduction without its comparison with the available quantity
update_product_quantities_unchecked(st, w, product_code, quantity) ==
  [st EXCEPT ![w][product_code] = @ - quantity]

\* DatabaseService.update_product_quantities (the later definition, which
\* replaces the earlier one) for one product: the row is the first the
\* query by code alone returns, and a short stock is logged only
update_product_quantities(st, w, product_code, quantity) ==
  IF st[w][product_code] >= quantity
  THEN [st EXCEPT ![w][product_code] = @ - quantity]
  ELSE st

\* what can happen to the confirmation email of an order: it is sent, the
\* mail server refuses it (send_email logs 'failed' and returns False), or
\* building the message raises before anything is sent
NotificationOutcomes == {"sent", "failed", "error"}

\* the EmailLog row send_email writes
EmailLogRows(order_id, outcome) ==
  IF outcome = "error" THEN {}
  ELSE {[order |-> order_id, status |-> outcome]}

\* the notification without the try/except around its body
send_order_confirmation_emails_unguarded(order_id, outcome) ==
  [raised |-> outcome # "sent", log |-> EmailLogRows(order_id, outcome)]

\* _send_order_confirmation_emails of both services: every exception is
\* caught and logged, so the caller never sees one
send_order_confirmation_emails(order_id, outcome) ==
  [raised |-> FALSE, log |-> EmailLogRows(order_id, outcome)]

\* one line of the 'Add order items' loop, and after the last line the
\* order total, the status, the session update and the confirmation
\* emails. The emails are sent inside the try block after the commit: an
\* exception leaving them would make the call return None.
OrderLine(s) ==
  LET r == request[s]
      item == r.cart_items[r.i]
      oi == order_item(r.path, item)
      total == r.total_amount + oi.total_price
  IN  /\ r.pc = "items"
      /\ ~(r.path = "confirm" /\ item.product_id = 0)
      /\ \E w \in Warehouses :
           stock' = update_product_quantities(stock, w, item.product_code,
                                              item.quantity)
      /\ IF r.i < Len(r.cart_items)
         THEN /\ orders' = [orders EXCEPT
                              ![r.order].order_items = Append(@, oi)]
              /\ request' = [request EXCEPT ![s].i = @ + 1,
                                            ![s].total_amount = total]
              /\ UNCHANGED <<order_session, response, email_log>>
         ELSE \E outcome \in NotificationOutcomes :
                LET n == send_order_confirmation_emails(r.order, outcome)
                    returned == IF n.raised /\ r.path # "confirm"
                                THEN 0 ELSE r.order
                IN  /\ orders' = [orders EXCEPT
                                    ![r.order].order_items = Append(@, oi),
                                    ![r.order].total_amount = total,
                                    ![r.order].status = "confirmed"]
                    /\ request' = [request EXCEPT ![s] = Idle]
                    /\ email_log' = email_log \cup n.log
                    /\ response' = [response EXCEPT
                                      ![s] = IF n.raised THEN "order_failed"
                                             ELSE "ok"]
                    /\ order_session' =
                         [order_session EXCEPT
                            ![s] = IF returned = 0 THEN @
                                   ELSE completed_cart(r.path, @, r.order)]
      /\ UNCHANGED <<onboarding_state, resolution, warehouse_of, budget, pricing_in, pricing_out, pricing_calls,
                     tracking_session>>

\* confirm_cart on a line without 'product_id' (a line the chat or
\* /api/update-cart built): KeyError, rollback, the call returns None
OrderLineKeyError(s) ==
  LET r == request[s]
  IN  /\ r.pc = "items"
      /\ r.path = "confirm"
      /\ r.cart_items[r.i].product_id = 0
      /\ request' = [request EXCEPT ![s] = Idle]
      /\ response' = [response EXCEPT ![s] = "order_failed"]
      /\ UNCHANGED <<order_session, onboarding_state, resolution, warehouse_of, stock, orders, budget,
                     pricing_in, pricing_out, pricing_calls,
                     tracking_session, email_log>>

(***************************************************************************)
(* Pricing calls on their own (PricingSpec): any product row, any          *)
(* quantity >= 1.                                                          *)
(***************************************************************************)
PriceSet == {0, 5000, 80000, 120000, 250000}
DiscountSet == {0, 5000, 10000}
PricingInputs ==
  [product : [price_of_product : PriceSet, discount : DiscountSet,
              scheme : SchemeLabels \cup {None, "Clearance"}],
   quantity : 1..MaxPricingQty]

NotCalled == [called |-> FALSE]
NoInput == [product |-> sample_products["QB001"], quantity |-> 1]

\* no call kept yet, at most keep calls to be kept
NoCalls(keep) == [keep |-> keep, calls |-> <<>>]

PricingCall ==
  LET result == get_product_pricing(pricing_in.product, pricing_in.quantity)
  IN  /\ ~pricing_out.called
      /\ pricing_out' = [called |-> TRUE, result |-> result]
      /\ pricing_calls' =
           IF Len(pricing_calls.calls) < pricing_calls.keep
           THEN [pricing_calls EXCEPT
                   !.calls = Append(@, [input |-> pricing_in,
                                        result |-> result])]
           ELSE pricing_calls
      /\ UNCHANGED <<pricing_in, cartvars>>

PricingInput ==
  /\ pricing_out.called
  /\ pricing_in' \in PricingInputs
  /\ pricing_out' = NotCalled
  /\ UNCHANGED <<cartvars, pricing_calls>>

\* the pricing calls of PuritySpec: three catalog products, small quantities
PurityInputs ==
  [product : {sample_products[c] : c \in {"QB001", "QB002", "QB003"}},
   quantity : 1..MaxPurityQty]

PurityInput ==
  /\ pricing_out.called
  /\ pricing_in' \in PurityInputs
  /\ pricing_out' = NotCalled
  /\ UNCHANGED <<cartvars, pricing_calls>>

(***************************************************************************)
(* Specifications.                                                         *)
(***************************************************************************)
(***************************************************************************)
(* process_message, intent TRACK_ORDER. order_id is the order the message  *)
(* names (QB...), 0 when it names none; mine are the order rows of the     *)
(* session's user; selected_order_id 0 is None.                            *)
(***************************************************************************)
\* tracking_session['order_details'] of a session that viewed no order
NoDetails ==
  [order_id |-> 0, user_id |-> 0, warehouse_id |-> 0, status |-> "None",
   total_amount |-> 0]

reset_tracking_session ==
  [status |-> "idle", selected_order_id |-> 0, order_details |-> NoDetails,
   available_orders |-> {}]

OrdersOf(user_id) == {k \in 1..Len(orders) : orders[k].user_id = user_id}

\* Order.to_dict, with the fields of the fallback dictionary: the order
\* row as it is when the message is handled
to_dict(k) ==
  [order_id |-> k, user_id |-> orders[k].user_id,
   warehouse_id |-> orders[k].warehouse_id, status |-> orders[k].status,
   total_amount |-> orders[k].total_amount]

\* a lookup of the named order among the orders of every user
track_order_of_any_user(t, mine, order_id) ==
  LET selecting == [t EXCEPT !.status = "selecting", !.available_orders = mine]
  IN  IF order_id # 0 /\ mine # {} /\ order_id \in 1..Len(orders)
      THEN [selecting EXCEPT !.status = "viewing",
                             !.selected_order_id = order_id,
                             !.order_details = to_dict(order_id)]
      ELSE selecting

\* the TRACK_ORDER branch: mine are the orders of the user's e-mail,
\* order_id the id the message names (0: none)
track_order(t, mine, order_id) ==
  LET selecting == [t EXCEPT !.status = "selecting", !.available_orders = mine]
  IN  IF order_id # 0 /\ mine # {} /\ order_id \in mine
      THEN [selecting EXCEPT !.status = "viewing",
                             !.selected_order_id = order_id,
                             !.order_details = to_dict(order_id)]
      ELSE selecting

\* a TRACK_ORDER message of session s that names order_id
ChatTrackOf(s, order_id) ==
  /\ CanServe(s)
  /\ tracking_session' =
       [tracking_session EXCEPT
          ![s] = track_order(@, OrdersOf(s), order_id)]
  /\ order_session' = [order_session EXCEPT ![s] = EnsureCart(@)]
  /\ Served(s, "ok")
  /\ UNCHANGED <<onboarding_state, resolution, warehouse_of, stock, orders,
                 request, pricing_in, pricing_out, pricing_calls, email_log>>

\* the message names an order of anyone, an id no order has, or none
ChatTrack(s) ==
  \E order_id \in 0..MaxOrders : ChatTrackOf(s, order_id)

(***************************************************************************)
(* Onboarding: process_message before the main chat flow. The session key  *)
(* 'onboarding_state' is absent (None) until the first message; an absent  *)
(* key is set to ask_name and handled as such in the same request.         *)
(***************************************************************************)
Stages ==
  <<"ask_name", "get_name", "ask_email", "ask_phone", "await_otp",
    "ask_warehouse", "completed">>

\* the stage a session is handled at
StageOf(state) == IF state = None THEN "ask_name" ELSE state

\* position of a stage in the fixed order
StageIndex(stage) == CHOOSE i \in 1..Len(Stages) : Stages[i] = stage

\* the onboarding stage after a message without the OTP verification
onboarding_unverified(state, otp_valid) ==
  LET i == StageIndex(StageOf(state))
  IN  Stages[i + 1]

\* the onboarding stage after a message; otp_valid is the result of
\* user.verify_otp on the message (right code, not expired)
onboarding(state, otp_valid) ==
  LET i == StageIndex(StageOf(state))
  IN  IF StageOf(state) = "await_otp" /\ ~otp_valid THEN "await_otp"
      ELSE Stages[i + 1]

\* a chat message of a session whose onboarding is not completed
OnboardingMessageOf(s, otp_valid) ==
  /\ request[s].pc = "idle"
  /\ onboarding_state[s] # "completed"
  /\ onboarding_state' =
       [onboarding_state EXCEPT ![s] = onboarding(@, otp_valid)]
  /\ response' = [response EXCEPT
                    ![s] = IF onboarding_state'[s] = onboarding_state[s]
                           THEN "invalid_otp" ELSE "onboarding"]
  /\ UNCHANGED <<order_session, warehouse_of, stock, orders, request, budget,
                 tracking_session, email_log, resolution,
                 pricing_in, pricing_out, pricing_calls>>

OnboardingMessage(s) ==
  \E otp_valid \in BOOLEAN : OnboardingMessageOf(s, otp_valid)

\* what can happen at /clear: the export email is sent or fails, and the
\* deletion of the conversations succeeds or raises
ClearOutcomes == [export : {"sent", "failed"}, deleted : BOOLEAN]

\* the session keys /clear pops when the session has no user id
OnboardingKeys ==
  {"onboarding_state", "onboarding", "user_id", "session_id",
   "warehouse_location"}

\* a reset that leaves the cart and the tracking keys in the session
ClearedKeysWithoutCart == OnboardingKeys

\* the session keys /clear pops for a verified session
ClearedKeys ==
  {"onboarding_state", "onboarding", "user_id", "session_id",
   "warehouse_location", "order_session", "tracking_session"}

\* /clear: clear_conversation. Without a user id only the onboarding keys
\* are popped; otherwise a failed export is logged and the clearing goes
\* on, and a failed deletion ends the request with nothing popped.
ClearConversationOf(s, outcome) ==
  LET verified == onboarding_state[s] = "completed"
      popped == IF ~verified THEN OnboardingKeys
                ELSE IF outcome.deleted THEN ClearedKeys
                ELSE {}
  IN  /\ request[s].pc = "idle"
      /\ onboarding_state' =
           [onboarding_state EXCEPT
              ![s] = IF "onboarding_state" \in popped THEN None ELSE @]
      /\ order_session' =
           [order_session EXCEPT
              ![s] = IF "order_session" \in popped THEN NoCart ELSE @]
      /\ tracking_session' =
           [tracking_session EXCEPT
              ![s] = IF "tracking_session" \in popped
                     THEN reset_tracking_session ELSE @]
      /\ response' = [response EXCEPT
                        ![s] = IF popped = {} THEN "clear_failed"
                               ELSE "cleared"]
      /\ UNCHANGED <<warehouse_of, stock, orders, request, budget, email_log,
                     resolution, pricing_in, pricing_out, pricing_calls>>

ClearConversation(s) ==
  \E outcome \in ClearOutcomes : ClearConversationOf(s, outcome)

CartInit ==
  /\ order_session = [s \in Sessions |-> NoCart]
  /\ warehouse_of \in {f \in [Sessions -> Warehouses] : f[1] = 1}
  /\ stock = [w \in Warehouses |-> [c \in Codes |-> InitStock]]
  /\ orders = <<>>
  /\ request = [s \in Sessions |-> Idle]
  /\ response = [s \in Sessions |-> "none"]
  /\ tracking_session = [s \in Sessions |-> reset_tracking_session]
  /\ email_log = {}
  /\ onboarding_state = [s \in Sessions |-> "completed"]
  /\ resolution = NoResolution

Init ==
  /\ CartInit
  /\ budget = [s \in Sessions |-> IF s = 1 THEN MaxRequests ELSE 0]
  /\ pricing_in = NoInput
  /\ pricing_out = NotCalled
  /\ pricing_calls = NoCalls(0)

\* one step of session s: a request it sends, or a step of its order call
SessionStep(s) ==
  \/ ChatTrack(s)
  \/ ChatAdd(s)
  \/ ChatRemove(s)
  \/ ChatCalculate(s)
  \/ ChatBrowse(s)
  \/ ChatListing(s)
  \/ ChatDetailed(s)
  \/ ChatFinalize(s)
  \/ ApiInit(s)
  \/ ApiAdd(s)
  \/ ApiRemove(s)
  \/ ApiUpdate(s)
  \/ ApiClear(s)
  \/ UpdateCart(s)
  \/ ApiConfirm(s)
  \/ RoutePlaceOrder(s)
  \/ OrderLine(s)
  \/ OrderLineKeyError(s)

Next == \E s \in Sessions : SessionStep(s)

Spec == Init /\ [][Next]_vars

\* two sessions active at the same time
ConcInit ==
  /\ CartInit
  /\ \A s \in Sessions : warehouse_of[s] = 1
  /\ budget = [s \in Sessions |-> IF s = 1 THEN MaxConcRequests ELSE MaxRivalRequests]
  /\ pricing_in = NoInput
  /\ pricing_out = NotCalled
  /\ pricing_calls = NoCalls(0)

ConcSpec == ConcInit /\ [][Next]_vars

PricingInit ==
  /\ CartInit
  /\ budget = [s \in Sessions |-> 0]
  /\ pricing_in \in PricingInputs
  /\ pricing_out = NotCalled
  /\ pricing_calls = NoCalls(0)

PricingNext == PricingCall \/ PricingInput

PricingSpec == PricingInit /\ [][PricingNext]_vars

\* pricing calls between the adds of one session, each call kept
PurityInit ==
  /\ CartInit
  /\ budget = [s \in Sessions |-> IF s = 1 THEN MaxPurityRequests ELSE 0]
  /\ pricing_in \in PurityInputs
  /\ pricing_out = NotCalled
  /\ pricing_calls = NoCalls(MaxCalls)

PurityNext ==
  \/ PricingCall
  \/ PurityInput
  \/ \E s \in Sessions : ChatAdd(s) \/ ApiAdd(s)

PuritySpec == PurityInit /\ [][PurityNext]_vars

\* /api/update-quantities: the deduction of one product, asked for by any
\* client with a positive quantity
ApiUpdateQuantities ==
  \E product_code \in Codes, quantity \in 1..MaxAddQty, w \in Warehouses :
    /\ stock' = update_product_quantities(stock, w, product_code, quantity)
    /\ stock' # stock
    /\ UNCHANGED <<order_session, warehouse_of, orders, request, budget,
                   response, tracking_session, email_log, onboarding_state,
                   resolution, pricing_in, pricing_out, pricing_calls>>

\* the order calls of two sessions of one warehouse, one each, between the
\* stock updates of other clients
StockInit ==
  /\ CartInit
  /\ \A s \in Sessions : warehouse_of[s] = 1
  /\ budget = [s \in Sessions |-> MaxStockRequests]
  /\ pricing_in = NoInput
  /\ pricing_out = NotCalled
  /\ pricing_calls = NoCalls(0)

StockNext ==
  \/ ApiUpdateQuantities
  \/ \E s \in Sessions : RoutePlaceOrder(s) \/ OrderLine(s)

StockSpec == StockInit /\ [][StockNext]_vars

(***************************************************************************)
(* The 'add' command with its product resolution: the reference the add    *)
(* pattern captured is resolved against the catalog of the warehouse, and  *)
(* the product found (or none) is what the add branch goes on with.        *)
(***************************************************************************)
\* product names of the catalogs: 'Ab', 'Abba', 'Bab', 'Ab Bab'
ProductNames ==
  {<<"A", "b">>, <<"A", "b", "b", "a">>, <<"B", "a", "b">>,
   <<"A", "b", " ", "B", "a", "b">>}

\* the product codes 'Qa' and 'Qb' stand for the catalog codes
ProductCodeOf == [QB001 |-> <<"Q", "a">>, QB003 |-> <<"Q", "b">>]

\* two products of one warehouse in either order, with different names
Catalogs ==
  {<<[product_name |-> n1, product_code |-> ProductCodeOf[c1], key |-> c1],
     [product_name |-> n2, product_code |-> ProductCodeOf[c2], key |-> c2]>> :
     n1 \in ProductNames, n2 \in ProductNames, c1 \in Codes, c2 \in Codes}
  \ {cat \in [1..2 -> [product_name : ProductNames,
                        product_code : {ProductCodeOf[c] : c \in Codes},
                        key : Codes]] :
        cat[1].product_name = cat[2].product_name \/ cat[1].key = cat[2].key}

\* the references: the stripped lower-case text the add pattern captures
References ==
  {ref \in UNION {[1..n -> {"a", "b", "q", " "}] : n \in 1..MaxRefLen} :
     ref[1] # " " /\ ref[Len(ref)] # " "}

ResolutionInputs ==
  [called : {FALSE}, products : Catalogs, product_name : References]

\* the two matching loops of the add branch
ResolveProduct ==
  /\ resolution \in ResolutionInputs
  /\ resolution' =
       [called |-> TRUE, products |-> resolution.products,
        product_name |-> resolution.product_name,
        product |-> resolve_product(resolution.product_name,
                                    resolution.products)]
  /\ UNCHANGED <<order_session, warehouse_of, stock, orders, request, budget,
                 response, tracking_session, email_log, onboarding_state,
                 pricing_in, pricing_out, pricing_calls>>

\* the catalog code of the product found, NoProduct for None
ResolvedKey ==
  IF resolution.product = 0 THEN NoProduct
  ELSE resolution.products[resolution.product].key

\* the rest of the add branch, with the product found
AddResolved(s) ==
  /\ resolution.called
  /\ \E quantity \in 1..MaxAddQty : ChatAddOf(s, ResolvedKey, quantity)

ResolveInit ==
  /\ order_session = [s \in Sessions |-> NoCart]
  /\ warehouse_of = [s \in Sessions |-> 1]
  /\ stock = [w \in Warehouses |-> [c \in Codes |-> InitStock]]
  /\ orders = <<>>
  /\ request = [s \in Sessions |-> Idle]
  /\ response = [s \in Sessions |-> "none"]
  /\ tracking_session = [s \in Sessions |-> reset_tracking_session]
  /\ email_log = {}
  /\ onboarding_state = [s \in Sessions |-> "completed"]
  /\ resolution \in ResolutionInputs
  /\ budget = [s \in Sessions |-> IF s = 1 THEN MaxResolveRequests ELSE 0]
  /\ pricing_in = NoInput
  /\ pricing_out = NotCalled
  /\ pricing_calls = NoCalls(0)

ResolveNext == ResolveProduct \/ \E s \in Sessions : AddResolved(s)

ResolveSpec == ResolveInit /\ [][ResolveNext]_vars

\* a session from its first message on: onboarding, the chat and cart
\* requests of the verified session, and /clear
OnboardInit ==
  /\ order_session = [s \in Sessions |-> NoCart]
  /\ warehouse_of \in {f \in [Sessions -> Warehouses] : f[1] = 1}
  /\ stock = [w \in Warehouses |-> [c \in Codes |-> InitStock]]
  /\ orders = <<>>
  /\ request = [s \in Sessions |-> Idle]
  /\ response = [s \in Sessions |-> "none"]
  /\ tracking_session = [s \in Sessions |-> reset_tracking_session]
  /\ email_log = {}
  /\ onboarding_state = [s \in Sessions |-> None]
  /\ resolution = NoResolution
  /\ budget = [s \in Sessions |-> IF s = 1 THEN MaxOnboardRequests ELSE 0]
  /\ pricing_in = NoInput
  /\ pricing_out = NotCalled
  /\ pricing_calls = NoCalls(0)

\* the session that is followed from its first message
OnboardSessions == {1}

OnboardNext ==
  \E s \in OnboardSessions :
    \/ OnboardingMessage(s)
    \/ ClearConversation(s)
    \/ SessionStep(s)

OnboardSpec == OnboardInit /\ [][OnboardNext]_vars


(***************************************************************************)
(* The claims.                                                             *)
(***************************************************************************)
Carts == {s \in Sessions : order_session[s] # NoCart}

\* C1: in every reachable state the cart's total_cost equals the sum of
\* item_total over the lines currently in the cart.
C1_TotalCostIsSumOfLines ==
  \A s \in Carts :
    LET c == order_session[s]
    IN  (IF "total_cost" \in c.missing THEN 0 ELSE c.total_cost)
          = SumItemTotal(c.items)

\* C7: for every quantity q >= 1 and the schemes 'Buy 2 Get 1 Free' and
\* 'Buy 3 Get 2 Free', the returned paid_quantity + free_quantity equals q.
C7_PaidPlusFreeIsQuantity ==
  (/\ pricing_out.called
   /\ pricing_in.product.scheme \in {"Buy 2 Get 1 Free", "Buy 3 Get 2 Free"})
  => pricing_out.result.paid_quantity + pricing_out.result.free_quantity
       = pricing_in.quantity

\* C2: every cart line in every reachable state has the item_total that
\* pricing the line's current quantity gives (final unit price x paid
\* quantity), also after the product was added again.
C2_LineTotalIsPriceOfQuantity ==
  \A s \in Carts :
    \A k \in 1..Len(order_session[s].items) :
      LET item == order_session[s].items[k]
      IN  item.item_total =
            get_product_pricing(sample_products[item.product_code],
                                item.quantity).total_amount

\* C3: no entry point creates an order when a line of the cart it was given
\* fails the stock check: an order is never made of only the lines that
\* passed.
C3_NoPartialOrder ==
  \A s \in Sessions :
    request[s].pc = "items"
      => Len(request[s].cart_items) = Len(request[s].requested)

\* the finalize of session s stores its k-th order line in this step
StoresLine(s, k) ==
  /\ request[s].pc = "items"
  /\ request[s].i = k
  /\ Len(orders[request[s].order].order_items) = k - 1
  /\ Len(orders'[request[s].order].order_items) = k

\* C4: every line the finalize of a cart stores has the unit price and the
\* line total the cart line holds, and the order's total_amount is the
\* cart's final_total.
C4_OrderHasCartAmounts ==
  [][\A s \in Carts :
       \A k \in 1..Len(order_session[s].items) :
         (request[s].pc = "items" /\ request[s].path # "route"
            /\ StoresLine(s, k))
         => LET line == order_session[s].items[k]
                row == orders'[request[s].order]
            IN  /\ row.order_items[k].unit_price
                     \in {line.final_price, line.unit_price}
                /\ row.order_items[k].total_price = line.item_total
                /\ row.status = "confirmed"
                     => row.total_amount = order_session[s].final_total]_vars

\* the cart holds one line, priced for a quantity one add can bring
OnlyTheNewItem(c) ==
  /\ Len(c.items) = 1
  /\ c.items[1].quantity <= MaxAddQty
  /\ c.items[1].item_total =
       get_product_pricing(sample_products[c.items[1].product_code],
                           c.items[1].quantity).total_amount

\* C5: an add (chat 'add' or /api/cart/add) on a session whose cart was
\* finalized is rejected or lands in an emptied cart: the finalized lines
\* are not in the cart that receives the new item.
C5_NoAddToCompletedCart ==
  [][\A s \in Carts :
       (/\ order_session[s].status = "completed"
        /\ order_session[s].items # <<>>
        /\ ChatAdd(s) \/ ApiAdd(s))
       => \/ order_session'[s].items = order_session[s].items
          \/ OnlyTheNewItem(order_session'[s])]_vars

\* the finalize of the cart of session s takes a step whose stock deduction
\* is not applied: the row it checked no longer holds the line's quantity
DeductionFails(s) ==
  /\ request[s].pc = "items"
  /\ request[s].path # "route"
  /\ request'[s] # request[s]
  /\ stock' = stock
  /\ LET item == request[s].cart_items[request[s].i]
     IN  stock[warehouse_of[s]][item.product_code] < item.quantity

\* C6: a finalize that passed the stock check and whose deduction cannot be
\* applied, because another session took the stock in between, ends there
\* with a stock failure and leaves no confirmed order.
C6_LosingFinalizeFails ==
  [][\A s \in Sessions :
       DeductionFails(s)
       => /\ request'[s] = Idle
          /\ orders'[request[s].order].status # "confirmed"]_vars

\* C8: a chat 'add' message that resolves to no product leaves status,
\* pending_confirmation, items and totals of the cart unchanged.
C8_UnresolvedAddChangesNothing ==
  [][\A s \in Sessions :
       (\E quantity \in 1..MaxAddQty : ChatAddOf(s, NoProduct, quantity))
       => LET before == EnsureCart(order_session[s])
              after == order_session'[s]
          IN  /\ after.status = before.status
              /\ after.pending_confirmation = before.pending_confirmation
              /\ after.items = before.items
              /\ after.total_cost = before.total_cost
              /\ after.final_total = before.final_total]_vars

\* C9: an order is being created from a session's cart only when the cart
\* is non-empty and its status is confirming or calculating.
C9_FinalizeOnlyWhenConfirming ==
  \A s \in Sessions :
    (request[s].pc = "items" /\ request[s].path # "route")
    => /\ order_session[s] # NoCart
       /\ order_session[s].status \in {"confirming", "calculating"}
       /\ order_session[s].items # <<>>

\* the lines of the cart are the lines of the order row
SameLines(items, order_items) ==
  /\ Len(items) = Len(order_items)
  /\ \A k \in 1..Len(items) :
       /\ items[k].product_code = order_items[k].product_code
       /\ items[k].quantity = order_items[k].quantity

\* C10: a cart that was turned into an order, and to which nothing was added
\* since, is not turned into a second order.
C10_OneOrderPerCart ==
  \A s \in Carts :
    LET c == order_session[s]
    IN  (/\ c.order_id # 0
         /\ orders[c.order_id].status = "confirmed"
         /\ SameLines(c.items, orders[c.order_id].order_items))
        => ~(request[s].pc = "items" /\ request[s].order # c.order_id)

\* the finalize of session s stores a line in this step
LineStep(s) ==
  /\ request[s].pc = "items"
  /\ request'[s] # request[s]
  /\ Len(orders'[request[s].order].order_items)
       > Len(orders[request[s].order].order_items)

\* C11: stock is deducted only for a line of a stored order record, and a
\* finalize that stores a line without its stock deduction ends there and
\* does not mark the cart completed.
C11_CompletedOnlyAfterDeductions ==
  [][/\ stock' # stock
        => \E s \in Sessions : LineStep(s) /\ request[s].order <= Len(orders)
     /\ \A s \in Sessions :
          (/\ LineStep(s)
           /\ request[s].path = "confirm"
           /\ request[s].cart_items[request[s].i].quantity > 0
           /\ stock' = stock)
          => /\ request'[s] = Idle
             /\ order_session'[s].status # "completed"]_vars

\* C12: a finalize that fails after it created the order record leaves
\* nothing behind: every order row that is not confirmed, and every line
\* such a row holds, belongs to a finalize still running.
C12_FailedFinalizeLeavesNothing ==
  \A k \in 1..Len(orders) :
    orders[k].status # "confirmed"
      => \E s \in Sessions : request[s].pc = "items" /\ request[s].order = k

\* session s sends a finalize request that is refused at the stock check
RefusedForStock(s) ==
  /\ ChatFinalize(s) \/ ApiConfirm(s)
  /\ order_session[s].items # <<>>
  /\ ~AllAvailable(order_session[s].items, warehouse_of[s])

\* C13: a finalize refused for insufficient stock leaves the session's cart
\* as it was (status, items, totals, no order id) and creates no order.
C13_RefusedFinalizeKeepsCart ==
  [][\A s \in Carts :
       RefusedForStock(s)
       => /\ order_session'[s] = order_session[s]
          /\ orders' = orders
          /\ stock' = stock
          /\ response'[s] = "order_failed"]_vars

\* a cart with a line the stock does not cover, after its finalize was
\* refused
C13_Witness ==
  \E s \in Carts :
    /\ response[s] = "order_failed"
    /\ request[s].pc = "idle"
    /\ order_session[s].items # <<>>
    /\ order_session[s].status = "confirming"
    /\ order_session[s].order_id = 0
    /\ ~AllAvailable(order_session[s].items, warehouse_of[s])

\* the fields of a cart the user sees and the stage logic reads
Snapshot(c) ==
  [status |-> c.status, pending_confirmation |-> c.pending_confirmation,
   items |-> c.items, total_cost |-> c.total_cost,
   final_total |-> c.final_total]

\* C14: on the cart of every reachable state, adding a product the cart
\* does not hold and removing it at once gives back the cart as it was
\* (lines, totals, status, pending_confirmation), by chat and by /api/cart.
C14_AddRemoveRoundTrip ==
  \A s \in Sessions :
    \A code \in Codes, quantity \in 1..MaxAddQty :
      LET c == EnsureCart(order_session[s])
          w == warehouse_of[s]
          added == chat_add(c, code, quantity).cart
          api_added == add_item_to_cart(c, code, quantity, w, stock[w][code])
      IN  (FirstIndex(c.items, code) = 0 /\ "total_cost" \notin c.missing)
          => /\ Snapshot(chat_remove(added, code).cart) = Snapshot(c)
             /\ (order_session[s] # NoCart /\ stock[w][code] >= quantity)
                  => Snapshot(remove_item_from_cart(api_added, code))
                       = Snapshot(c)

\* the line of product code in the cart c, which holds it
LineOf(c, code) == c.items[FirstIndex(c.items, code)]

\* the cart of session s holds product code
Holds(s, code) ==
  /\ order_session[s] # NoCart
  /\ FirstIndex(order_session[s].items, code) # 0

\* C15: on a cart that holds the product with quantity n, a chat 'add' of q
\* gives the line quantity n + q, and setting quantity q by update_cart or
\* by update_item_quantity succeeds and gives the line quantity q, priced
\* for q.
C15_AddAccumulatesSetReplaces ==
  [][\A s \in Sessions, code \in Codes, q \in 1..MaxAddQty :
       Holds(s, code)
       => LET n == LineOf(order_session[s], code).quantity
              after == LineOf(order_session'[s], code)
              priced == get_product_pricing(sample_products[code], q)
          IN  /\ (ChatAddOf(s, code, q)
                    /\ order_session'[s] # order_session[s])
                 => after.quantity = n + q
              /\ UpdateCartOf(s, code, q)
                 => /\ after.quantity = q
                    /\ after.item_total = priced.total_amount
              /\ (ApiUpdateOf(s, code, q)
                    /\ stock[warehouse_of[s]][code] >= q)
                 => /\ response'[s] = "ok"
                    /\ after.quantity = q
                    /\ after.item_total = priced.total_amount]_vars

\* C16: on a cart that holds the product, setting its quantity to 0 by
\* update_cart or by update_item_quantity leaves the cart without that line
\* and with total_cost and final_total recomputed over the lines left.
C16_SetToZeroRemoves ==
  [][\A s \in Sessions, code \in Codes :
       (Holds(s, code) /\ (UpdateCartOf(s, code, 0) \/ ApiUpdateOf(s, code, 0)))
       => LET left == WithoutCode(order_session[s].items, code)
              after == order_session'[s]
          IN  /\ after.items = left
              /\ after.total_cost = SumItemTotal(left)
              /\ after.final_total = SumItemTotal(left)]_vars

\* every line of cart c has a quantity above 0
PositiveLines(c) ==
  c # NoCart => \A i \in 1..Len(c.items) : c.items[i].quantity > 0

\* C17: a chat 'add' or an /api/cart/add with quantity 0, or with a product
\* that is not among the warehouse's products, is answered by an error and
\* leaves the cart as it was; and no add puts a line of quantity <= 0 in a
\* cart whose lines all had a quantity above 0.
C17_BadAddRefused ==
  [][\A s \in Sessions :
       /\ \A ref \in Codes \cup {NoProduct}, q \in 0..MaxAddQty :
            ((q = 0 \/ ref = NoProduct)
             /\ (ChatAddOf(s, ref, q) \/ ApiAddOf(s, ref, q)))
            => /\ response'[s] = "error"
               /\ order_session'[s] = order_session[s]
       /\ (PositiveLines(order_session[s]) /\ (ChatAdd(s) \/ ApiAdd(s)))
          => PositiveLines(order_session'[s])]_vars

\* C18: a chat 'remove' or an /api/cart/remove of a product code the cart
\* does not hold is answered by a failure and leaves the session's cart
\* (items, totals, status) as it was.
C18_RemoveAbsentFails ==
  [][\A s \in Sessions, code \in Codes \cup {NoProduct} :
       (~Holds(s, code) /\ (ChatRemoveOf(s, code) \/ ApiRemoveOf(s, code)))
       => /\ response'[s] \in {"not_in_cart", "error"}
          /\ order_session'[s] = order_session[s]]_vars

\* a removal of an absent code has been answered on a cart that has lines
C18_Witness ==
  \E s \in Carts :
    /\ response[s] = "not_in_cart"
    /\ order_session[s].items # <<>>

\* C19: in every reachable state, a cart that has both totals has final_total
\* equal to total_cost.
C19_FinalTotalIsTotalCost ==
  \A s \in Carts :
    LET c == order_session[s]
    IN  "total_cost" \notin c.missing => c.final_total = c.total_cost

\* C20: under every interleaving of two sessions, a step of one session (a
\* chat add, remove, listing or finalize, a cart API call, a tracking
\* request, a step of its order creation) leaves the cart, the tracking
\* state, the call in flight and the last answer of every other session as
\* they were.
C20_SessionsIndependent ==
  [][\A t \in Sessions : \A s \in Sessions \ {t} :
       SessionStep(t)
       => /\ order_session'[s] = order_session[s]
          /\ tracking_session'[s] = tracking_session[s]
          /\ request'[s] = request[s]
          /\ response'[s] = response[s]]_vars

\* both sessions have filled their carts, differently, and one of them has
\* tracked its orders
C20_Witness ==
  /\ \A s \in Sessions : s \in Carts /\ order_session[s].items # <<>>
  /\ order_session[1].items # order_session[2].items
  /\ \E s \in Sessions : tracking_session[s].status # "idle"

\* What process_message does with a message the classifier labels
\* TRACK_ORDER. The test  'add' in user_message.lower()  comes before every
\* test of the intent, so a tracking message whose text contains 'add' (as
\* in 'address') and names no product to add is handled by the 'add'
\* branch; any other one reaches the TRACK_ORDER branch.
TrackMessage(s) ==
  \/ ChatTrack(s)
  \/ \E quantity \in 0..MaxAddQty : ChatAddOf(s, NoProduct, quantity)

\* a cart operation or a step of an order creation of session s
CartStep(s) ==
  \/ ChatCalculate(s)
  \/ ChatAdd(s) \/ ChatRemove(s) \/ ChatBrowse(s) \/ ChatListing(s)
  \/ ChatDetailed(s) \/ ChatFinalize(s) \/ ApiInit(s) \/ ApiAdd(s)
  \/ ApiRemove(s) \/ ApiUpdate(s) \/ ApiClear(s) \/ UpdateCart(s)
  \/ ApiConfirm(s) \/ RoutePlaceOrder(s) \/ OrderLine(s)
  \/ OrderLineKeyError(s)

\* C21: handling a TRACK_ORDER message leaves the session's cart (items,
\* totals, status, pending_confirmation) as it was, a cart not yet created
\* counting as the empty idle cart; and no cart operation or finalize step
\* changes the session's tracking_session.
C21_AxesIndependent ==
  [][\A s \in Sessions :
       /\ TrackMessage(s)
          => Snapshot(EnsureCart(order_session'[s]))
               = Snapshot(EnsureCart(order_session[s]))
       /\ CartStep(s) => tracking_session'[s] = tracking_session[s]]_vars

\* the step of session s that ends its order creation after the last line
\* while the confirmation email of the order is not sent
FinishesUnnotified(s) ==
  /\ OrderLine(s)
  /\ request'[s] = Idle
  /\ [order |-> request[s].order, status |-> "sent"] \notin email_log'

\* C22: when the confirmation email of an order fails, the order creation
\* still ends as a success: the order row is kept with status confirmed,
\* no stock is given back, and the call answers with the order.
C22_NotificationFailureKeepsOrder ==
  [][\A s \in Sessions :
       FinishesUnnotified(s)
       => /\ Len(orders') = Len(orders)
          /\ orders'[request[s].order].status = "confirmed"
          /\ \A w \in Warehouses, c \in Codes : stock'[w][c] <= stock[w][c]
          /\ response'[s] = "ok"]_vars

\* an order is confirmed and answered although its email was refused
C22_Witness ==
  \E s \in Sessions, row \in email_log :
    /\ row.status = "failed"
    /\ orders[row.order].status = "confirmed"
    /\ orders[row.order].user_id = s
    /\ response[s] = "ok"

Priced(price_of_product, discount, scheme, quantity) ==
  /\ pricing_out.called
  /\ pricing_in = [product |-> [price_of_product |-> price_of_product,
                                discount |-> discount, scheme |-> scheme],
                   quantity |-> quantity]

\* C24: base price 800.00, discount 50.00, 'Buy 3 Get 2 Free', quantity 8
\* give paid quantity 6, free quantity 2, unit price 750.00 and line total
\* 4500.00.
C24_ScenarioB ==
  Priced(80000, 5000, "Buy 3 Get 2 Free", 8)
  => /\ pricing_out.result.paid_quantity = 6
     /\ pricing_out.result.free_quantity = 2
     /\ pricing_out.result.final_price = 75000
     /\ pricing_out.result.total_amount = 450000

\* C25: base price 2500.00, discount 0, 'Buy 2 Get 1 Free', quantity 5 give
\* paid quantity 4, free quantity 1 and line total 10000.00.
C25_ScenarioA ==
  Priced(250000, 0, "Buy 2 Get 1 Free", 5)
  => /\ pricing_out.result.paid_quantity = 4
     /\ pricing_out.result.free_quantity = 1
     /\ pricing_out.result.total_amount = 1000000

\* scenario A has been priced
C25_Witness ==
  /\ Priced(250000, 0, "Buy 2 Get 1 Free", 5)
  /\ pricing_out.result.total_amount = 1000000

\* the percent-off labels of the catalog: minimum quantity and percent
PercentOff ==
  [label \in {"Buy 1 Get 20% Off", "Buy 1 Get 15% Off", "Buy 2 Get 25% Off"}
     |-> CASE label = "Buy 1 Get 20% Off" -> [minQty |-> 1, percent |-> 20]
           [] label = "Buy 1 Get 15% Off" -> [minQty |-> 1, percent |-> 15]
           [] OTHER -> [minQty |-> 2, percent |-> 25]]

C27_PriceNeverNegative ==
  (/\ pricing_out.called
   /\ pricing_in.product.discount > pricing_in.product.price_of_product)
  => /\ pricing_out.result.final_price = 0
     /\ pricing_out.result.total_amount = 0

\* C28: in every reachable state the status of a session's cart is one of
\* idle, browsing, calculating, confirming, completed, whichever operation
\* wrote it, cart initialisation and cart clearing included.
C28_StatusInStages ==
  \A s \in Carts :
    order_session[s].status \in
      {"idle", "browsing", "calculating", "confirming", "completed"}

\* C29: whatever cart operations have run (chat add, product listing,
\* detailed order confirmation, update_cart, /api/cart/add), no two lines
\* of a cart have the same product code.
C29_CodesUnique ==
  \A s \in Carts :
    \A i, j \in 1..Len(order_session[s].items) :
      order_session[s].items[i].product_code
        = order_session[s].items[j].product_code => i = j

\* the last line of an order of the session's own cart is stored and the
\* caller (the chat finalize or /api/cart/confirm) is handed the order
Finalized(s) ==
  /\ OrderLine(s)
  /\ request[s].path \in {"chat", "confirm"}
  /\ request'[s] = Idle
  /\ response'[s] = "ok"

\* the PLACE_ORDER handlers, which reset a completed cart before anything else
StartsNextOrder(s) ==
  ChatBrowse(s) \/ ChatListing(s) \/ ChatDetailed(s) \/ ChatFinalize(s)

\* C30: after a successful finalize the session's cart has status completed
\* and its order_id is the id of the order just created, and a completed
\* cart keeps both until the forced reset that precedes the next order.
C30_CompletedUntilReset ==
  [][\A s \in Sessions :
       /\ Finalized(s)
          => /\ order_session'[s].status = "completed"
             /\ order_session'[s].order_id = request[s].order
       /\ (/\ order_session[s].status = "completed"
           /\ order_session[s].order_id # 0
           /\ ~StartsNextOrder(s))
          => /\ order_session'[s].status = "completed"
             /\ order_session'[s].order_id = order_session[s].order_id]_vars

\* the units of a product in the lines of an order
RECURSIVE QuantityIn(_, _)
QuantityIn(order_items, code) ==
  IF order_items = <<>> THEN 0
  ELSE (IF Head(order_items).product_code = code
        THEN Head(order_items).quantity ELSE 0)
       + QuantityIn(Tail(order_items), code)

\* the units of a product in the confirmed orders 1..k of a warehouse
RECURSIVE ConfirmedQuantity(_, _, _)
ConfirmedQuantity(k, warehouse_id, code) ==
  IF k = 0 THEN 0
  ELSE (IF orders[k].status = "confirmed"
           /\ orders[k].warehouse_id = warehouse_id
        THEN QuantityIn(orders[k].order_items, code) ELSE 0)
       + ConfirmedQuantity(k - 1, warehouse_id, code)

\* C31: under every interleaving of the finalize calls of different
\* sessions, the confirmed orders of a warehouse never hold more units of a
\* product than that warehouse had in stock initially (no overselling).
C31_NoOverselling ==
  \A w \in Warehouses, code \in Codes :
    ConfirmedQuantity(Len(orders), w, code) <= InitStock

\* C32: a finalize decrements the stock record of the (warehouse, product
\* code) whose availability was checked, the one of the order's warehouse;
\* the stock of every other record, the same code in another warehouse
\* included, is left unchanged.
C32_DeductsTheCheckedRecord ==
  [][\A s \in Sessions :
       LineStep(s)
       => LET checked == orders[request[s].order].warehouse_id
              code == request[s].cart_items[request[s].i].product_code
          IN  \A w \in Warehouses, c \in Codes :
                (w # checked \/ c # code) => stock'[w][c] = stock[w][c]]_vars

\* a CALCULATE_COST message of session s that resolves to no product and
\* quantity: one the cost calculation finds nothing in, or one that holds
\* the word 'add' and whose product reference matches nothing
UnresolvedCalculation(s) ==
  \/ ChatCalculateOf(s, NotReady)
  \/ \E quantity \in 0..MaxAddQty : ChatAddOf(s, NoProduct, quantity)

\* C33: the status of a cart becomes calculating only by a cost-calculation
\* request whose order is ready with at least one line, and a
\* cost-calculation request that resolves nothing leaves the cart's
\* status, items and totals as they were.
C33_CalculatingOnlyWhenResolved ==
  [][\A s \in Sessions :
       /\ (/\ EnsureCart(order_session'[s]).status = "calculating"
           /\ EnsureCart(order_session[s]).status # "calculating")
          => \E cost_data \in CostData \ {NotReady} :
               ChatCalculateOf(s, cost_data)
       /\ UnresolvedCalculation(s)
          => LET before == EnsureCart(order_session[s])
                 after == EnsureCart(order_session'[s])
             IN  /\ after.status = before.status
                 /\ after.items = before.items
                 /\ after.total_cost = before.total_cost
                 /\ after.final_total = before.final_total]_vars

C35_SummaryTotalIsSumOfLines ==
  \A s \in Carts :
    order_session[s].items # <<>>
    => LET cart_summary == get_cart_summary(order_session[s])
       IN  /\ cart_summary.ok
           /\ cart_summary.total_amount = SumItemTotal(cart_summary.items)

\* the least index of a set of catalog positions, 0 when it is empty
Least(hits) ==
  IF hits = {} THEN 0
  ELSE CHOOSE i \in hits : \A j \in hits : i <= j

\* the positions of the resolved catalog that match the resolved reference
\* exactly
ExactHits ==
  {i \in 1..Len(resolution.products) :
     ExactMatch(lower(resolution.product_name), resolution.products[i])}

\* the positions that match it partially
PartialHits ==
  {i \in 1..Len(resolution.products) :
     PartialMatch(lower(resolution.product_name), resolution.products[i])}

\* the partial match as a shared word: the reference is part of the name,
\* or holds the code, or has a word longer than 2 characters that is a word
\* of the name
SharedWordMatch(product_name_lower, p) ==
  \/ Contains(lower(p.product_name), product_name_lower)
  \/ Contains(product_name_lower, lower(p.product_code))
  \/ \E k \in 1..Len(split(product_name_lower)) :
       /\ Len(split(product_name_lower)[k]) > 2
       /\ \E m \in 1..Len(split(lower(p.product_name))) :
            split(lower(p.product_name))[m] = split(product_name_lower)[k]

\* the positions that match it by a shared word
SharedWordHits ==
  {i \in 1..Len(resolution.products) :
     SharedWordMatch(lower(resolution.product_name), resolution.products[i])}

\* what the add does with the product found: a line of that product is in
\* the cart afterwards, and with no product the lines stay as they were and
\* the reply is the one that lists the available products
AddFollowsResolution(s) ==
  AddResolved(s)
  => IF resolution.product = 0
     THEN /\ EnsureCart(order_session'[s]).items
               = EnsureCart(order_session[s]).items
          /\ response'[s] = "error"
     ELSE /\ FirstIndex(order_session'[s].items, ResolvedKey) # 0
          /\ response'[s] = "ok"

\* C36 as stated: the product found is the first exact match (name or code,
\* case-insensitive) whatever the catalog order, else the first product in
\* catalog order that partially matches (substring, or a shared word longer
\* than 2 characters), else none, and then nothing is added and the reply
\* lists the products.
C36_ExactThenSharedWord ==
  /\ [](resolution.called
          => resolution.product = IF ExactHits # {} THEN Least(ExactHits)
                                  ELSE Least(SharedWordHits))
  /\ [][\A s \in Sessions : AddFollowsResolution(s)]_vars

\* C36, amended: the product found is the first exact match (name or code,
\* case-insensitive) whatever the catalog order; else the first product in
\* catalog order whose name contains the reference, whose code the
\* reference contains, or whose name contains a word of the reference
\* longer than 2 characters; else none, and then nothing is added and the
\* reply lists the products.
C36_ExactThenContained ==
  /\ [](resolution.called
          => resolution.product = IF ExactHits # {} THEN Least(ExactHits)
                                  ELSE Least(PartialHits))
  /\ [][\A s \in Sessions : AddFollowsResolution(s)]_vars

\* the second product matches exactly, the first only partially, and the
\* second is the one found
C36_Witness ==
  /\ resolution.called
  /\ resolution.product = 2
  /\ ExactMatch(lower(resolution.product_name), resolution.products[2])
  /\ PartialMatch(lower(resolution.product_name), resolution.products[1])
  /\ \E s \in Carts :
       /\ Len(order_session[s].items) = 1
       /\ order_session[s].items[1].product_code = resolution.products[2].key

\* /clear of a verified session ends with the success answer
ClearSucceeds(s) ==
  /\ ClearConversation(s)
  /\ onboarding_state[s] = "completed"
  /\ response'[s] = "cleared"

C38_PaidQuantityMonotone ==
  pricing_out.called
  => LET q == pricing_in.quantity
         after == pricing_in.product.price_of_product
                    - pricing_in.product.discount
         r == pricing_out.result
         more == get_product_pricing(pricing_in.product, q + 1)
     IN  /\ r.paid_quantity >= 1
         /\ r.paid_quantity <= q
         /\ r.free_quantity >= 0
         /\ more.paid_quantity >= r.paid_quantity
         /\ r.total_amount <= q * after
         /\ more.total_amount >= r.total_amount

C40_ViewingOnlyOwnOrder ==
  /\ [](\A s \in Sessions :
          LET t == tracking_session[s]
          IN  t.status = "viewing"
              => /\ t.selected_order_id \in OrdersOf(s)
                 /\ t.order_details.order_id = t.selected_order_id
                 /\ t.order_details.user_id = s
                 /\ t.order_details.warehouse_id
                      = orders[t.selected_order_id].warehouse_id)
  /\ [][\A s \in Sessions : \A order_id \in 0..MaxOrders :
          ChatTrackOf(s, order_id)
          => /\ tracking_session'[s].status = "viewing"
                => /\ order_id \in OrdersOf(s)
                   /\ tracking_session'[s].selected_order_id = order_id
                   /\ tracking_session'[s].order_details = to_dict(order_id)
             /\ (order_id # 0 /\ order_id \notin OrdersOf(s))
                => /\ tracking_session'[s].status # "viewing"
                   /\ tracking_session'[s].order_details
                        = tracking_session[s].order_details
                   /\ tracking_session'[s].order_details.order_id
                        # order_id]_vars

\* a session views one of its orders while another user has an order too
C40_Witness ==
  \E s \in Sessions :
    /\ tracking_session[s].status = "viewing"
    /\ tracking_session[s].selected_order_id \in OrdersOf(s)
    /\ \E k \in 1..Len(orders) : orders[k].user_id # s
====
